---------------------------- MODULE Spec2Model ----------------------------
(***************************************************************************)
(* Model of OpenPyEl1.py: the spreadsheet-to-Gherkin converter.            *)
(*                                                                         *)
(* Python values are records tagged by k: None, Str(s) with s a sequence   *)
(* of characters, Num(n) an int, Tuple(v) a tuple or list, Raise(e) an     *)
(* exception that left the function.  A character is a one-character       *)
(* string; "nbsp" stands for the single character U+00A0.                  *)
(***************************************************************************)
EXTENDS Integers, Sequences, FiniteSets, TLC

VARIABLES request_sheet, validation_sheet, inputs, outputs,
          row, parameters,
          testcase, rendered,
          input_dir, entry_index, testcases, feature_files, stderr, driver

parse_vars  == <<request_sheet, validation_sheet, inputs, outputs>>
row_vars    == <<row, parameters>>
render_vars == <<testcase, rendered>>
driver_vars == <<input_dir, entry_index, testcases, feature_files, stderr, driver>>
vars == <<parse_vars, row_vars, render_vars, driver_vars>>

-----------------------------------------------------------------------------
(* Bounds of the model *)

\* body rows of a generated request / validation sheet
MaxBody == 4
\* data columns of a generated sheet
MaxData == 2
\* (key, value) cell pairs of a generated TestData row
MaxPairs == 3
\* scenario columns of a generated test case, on either sheet
MaxScenarios == 2
\* assertions of a generated scenario column
MaxAssertions == 2
\* TestData rows of a generated workbook
MaxCases == 2
\* entries of the input directory
MaxEntries == 2

-----------------------------------------------------------------------------
(* Python values *)

None == [k |-> "None"]
Str(s) == [k |-> "str", s |-> s]
Num(n) == [k |-> "int", n |-> n]
Tuple(v) == [k |-> "tuple", v |-> v]
Raise(e) == [k |-> "raise", e |-> e]
Unset == [k |-> "unset"]

IsNone(x) == x.k = "None"
IsStr(x) == x.k = "str"
IsRaise(x) == x.k = "raise"
IsTuple(x) == x.k = "tuple"

-----------------------------------------------------------------------------
(* Literals of the program *)

DO_NOT_INCLUDE == <<"D", "O", "N", "O", "T", "I", "N", "C", "L", "U", "D", "E">>
OPEN_BRACKET == <<"{">>
CLOSE_BRACKET == <<"}">>
KW_Json == <<"J", "s", "o", "n">>
KW_XMLTagNamesStart ==
    <<"X", "M", "L", "T", "a", "g", "N", "a", "m", "e", "s", "S", "t", "a", "r", "t">>
LBL_json == <<"j", "s", "o", "n">>
LBL_xml == <<"x", "m", "l">>
PLACEHOLDER == <<"s", "t", "r", "i", "n", "g">>
TRIPLE_QUOTE == <<"\"", "\"", "\"">>
XML_WEB_SERVICE_TEST ==
    <<"X", "M", "L", "W", "e", "b", "S", "e", "r", "v", "i", "c", "e", "T", "e", "s", "t">>
KEY_RequestSheet == <<"R", "e", "q", "u", "e", "s", "t", "S", "h", "e", "e", "t">>
KEY_ValidationSheet == <<"V", "a", "l", "i", "d", "a", "t", "i", "o", "n", "S", "h", "e", "e", "t">>
KEY_URL == <<"U", "R", "L">>
KEY_RequestHeader == <<"R", "e", "q", "u", "e", "s", "t", "H", "e", "a", "d", "e", "r">>
SHEET_TestData == <<"T", "e", "s", "t", "D", "a", "t", "a">>
STR_None == <<"N", "o", "n", "e">>
SMOKE_PREFIX == <<"S", "_">>
REGRESSION_PREFIX == <<"R", "_">>
SMOKE_ANNOTATION == <<"@", "S", "m", "o", "k", "e", "T", "e", "s", "t", "\n">>
REGRESSION_ANNOTATION ==
    <<"@", "R", "e", "g", "r", "e", "s", "s", "i", "o", "n", "T", "e", "s", "t", "\n">>
TXT_Feature == <<"F", "e", "a", "t", "u", "r", "e", ":", " ">>
TXT_Scenario == <<"S", "c", "e", "n", "a", "r", "i", "o", ":", " ">>
TXT_Given ==
    <<"G", "i", "v", "e", "n", " ", "I", " ", "a", "m", " ", "a", " ", "X", "M", "L", "W", "e",
      "b", "s", "e", "r", "v", "i", "c", "e", " ", "c", "l", "i", "e", "n", "t">>
TXT_When ==
    <<"W", "h", "e", "n", " ", "I", " ", "s", "e", "n", "d", " ", "a", " ", "P", "O", "S", "T",
      " ", "r", "e", "q", "u", "e", "s", "t", " ", "t", "o", " ", "U", "R", "L", " ", "\"">>
TXT_WithFollowing ==
    <<"\"", " ", "w", "i", "t", "h", " ", "t", "h", "e", " ", "f", "o", "l", "l", "o", "w", "i",
      "n", "g", " ">>
TXT_Body == <<" ", "b", "o", "d", "y">>
TXT_Header ==
    <<"A", "n", "d", " ", "R", "e", "q", "u", "e", "s", "t", " ", "H", "e", "a", "d", "e", "r",
      " ", "i", "s", " ", "\"">>
TXT_Then == <<"T", "h", "e", "n">>
TXT_And == <<"A", "n", "d">>
TXT_ResponseCodeLine ==
    <<" ", "I", " ", "v", "a", "l", "i", "d", "a", "t", "e", " ", "t", "h", "a", "t", " ", "t",
      "h", "e", " ", "R", "e", "s", "p", "o", "n", "s", "e", " ", "C", "o", "d", "e", " ", "s",
      "h", "o", "u", "l", "d", " ", "b", "e", " ">>
TXT_ValidateThe ==
    <<" ", "I", " ", "v", "a", "l", "i", "d", "a", "t", "e", " ", "t", "h", "a", "t", " ", "t",
      "h", "e", " ">>
TXT_PathExpression ==
    <<" ", "p", "a", "t", "h", " ", "e", "x", "p", "r", "e", "s", "s", "i", "o", "n", " ", "\"">>
TXT_ShouldBe == <<"\"", " ", "s", "h", "o", "u", "l", "d", " ", "b", "e", " ", "\"">>
RESPONSE_CODE == <<"r", "e", "s", "p", "o", "n", "s", "e", " ", "c", "o", "d", "e">>
XLSX == <<".", "x", "l", "s", "x">>
FEATURE_EXT == <<".", "f", "e", "a", "t", "u", "r", "e">>
NBSP == <<"nbsp">>
COMMA == <<",">>
NEWLINE == <<"\n">>
UNDERSCORE == <<"_">>

TESTCASE_DESCRIPTION == 2
TESTCASE_FIRST_OBJECT_NAME == 9
TESTCASE_NAME == 1

-----------------------------------------------------------------------------
(* str methods *)

\* the characters str.strip() removes (str.isspace) among those of the model
WHITESPACE == {" ", "\t", "\n", "\r", "nbsp"}

UPPERCASE == <<"A", "B", "C", "D", "E", "F", "G", "H", "I", "J", "K", "L", "M",
               "N", "O", "P", "Q", "R", "S", "T", "U", "V", "W", "X", "Y", "Z">>
LOWERCASE == <<"a", "b", "c", "d", "e", "f", "g", "h", "i", "j", "k", "l", "m",
               "n", "o", "p", "q", "r", "s", "t", "u", "v", "w", "x", "y", "z">>
DIGITS == <<"0", "1", "2", "3", "4", "5", "6", "7", "8", "9">>

lower_char(c) ==
    IF \E i \in 1..26 : UPPERCASE[i] = c
    THEN LOWERCASE[CHOOSE i \in 1..26 : UPPERCASE[i] = c]
    ELSE c

lower(s) == [i \in 1..Len(s) |-> lower_char(s[i])]

RECURSIVE lstrip(_)
lstrip(s) ==
    IF s # <<>> /\ Head(s) \in WHITESPACE THEN lstrip(Tail(s)) ELSE s

RECURSIVE rstrip(_)
rstrip(s) ==
    IF s # <<>> /\ s[Len(s)] \in WHITESPACE
    THEN rstrip(SubSeq(s, 1, Len(s) - 1))
    ELSE s

strip(s) == rstrip(lstrip(s))

endswith(s, suffix) ==
    /\ Len(suffix) <= Len(s)
    /\ SubSeq(s, Len(s) - Len(suffix) + 1, Len(s)) = suffix

startswith(s, prefix) ==
    /\ Len(prefix) <= Len(s)
    /\ SubSeq(s, 1, Len(prefix)) = prefix

\* str.replace(old, new) for a non-empty old: leftmost non-overlapping matches
RECURSIVE replace(_, _, _)
replace(s, old, new) ==
    IF Len(s) < Len(old) THEN s
    ELSE IF startswith(s, old)
         THEN new \o replace(SubSeq(s, Len(old) + 1, Len(s)), old, new)
         ELSE <<Head(s)>> \o replace(Tail(s), old, new)

\* sep.join(parts), parts a sequence of character sequences
RECURSIVE join(_, _)
join(sep, parts) ==
    IF parts = <<>> THEN <<>>
    ELSE IF Len(parts) = 1 THEN parts[1]
    ELSE parts[1] \o sep \o join(sep, Tail(parts))

\* str(n) of a non-negative int
RECURSIVE str_int(_)
str_int(n) ==
    IF n < 10 THEN <<DIGITS[n + 1]>>
    ELSE str_int(n \div 10) \o <<DIGITS[(n % 10) + 1]>>

\* "{}".format(x): the text of a value, 'None' for None
format(x) ==
    IF IsNone(x) THEN STR_None
    ELSE IF x.k = "int" THEN str_int(x.n)
    ELSE x.s

-----------------------------------------------------------------------------
(* Sheets: rows is the matrix of cell values, max_row by max_column.       *)

max_row(sheet) == Len(sheet.rows)
max_column(sheet) == Len(sheet.rows[1])

\* sheet.cell(r, c).value; a cell outside the extent holds no value
cell(sheet, r, c) ==
    IF r \in 1..max_row(sheet) /\ c \in 1..max_column(sheet)
    THEN sheet.rows[r][c]
    ELSE None

cell_value_as_string(value) ==
    IF IsNone(value) THEN None
    ELSE IF IsStr(value) THEN value
    ELSE Str(str_int(value.n))

\* cell_value without the sentinel test
cell_value_keeps_sentinel(value, is_input) ==
    LET v == cell_value_as_string(value) IN
    IF IsNone(v) THEN (IF is_input THEN Str(<<>>) ELSE None) ELSE v

\* cell_value with the input policy for every cell
cell_value_one_policy(value, is_input) ==
    LET v == cell_value_as_string(value) IN
    IF IsNone(v) THEN Str(<<>>)
    ELSE IF v.s = DO_NOT_INCLUDE THEN None
    ELSE v

cell_value(value, is_input) ==
    LET v == cell_value_as_string(value) IN
    IF IsNone(v) THEN (IF is_input THEN Str(<<>>) ELSE None)
    ELSE IF v.s = DO_NOT_INCLUDE THEN None
    ELSE v

-----------------------------------------------------------------------------
(* parse_json_input *)

json_element(sheet, r) == cell_value_as_string(cell(sheet, r, 1))

is_marker(sheet, r, bracket) ==
    /\ ~IsNone(json_element(sheet, r))
    /\ strip(json_element(sheet, r).s) = bracket

marker_rows(sheet, bracket) ==
    {r \in 1..max_row(sheet) : is_marker(sheet, r, bracket)}

last_row(rows) == CHOOSE r \in rows : \A q \in rows : q <= r

\* opening_row when the scan keeps the first { instead of the last
opening_row_first(sheet) ==
    IF marker_rows(sheet, OPEN_BRACKET) = {} THEN 0
    ELSE CHOOSE r \in marker_rows(sheet, OPEN_BRACKET) :
             \A q \in marker_rows(sheet, OPEN_BRACKET) : r <= q

\* the row the scan leaves in opening_row / closing_row; 0 stands for None
opening_row(sheet) ==
    IF marker_rows(sheet, OPEN_BRACKET) = {} THEN 0
    ELSE last_row(marker_rows(sheet, OPEN_BRACKET))

closing_row(sheet) ==
    IF marker_rows(sheet, CLOSE_BRACKET) = {} THEN 0
    ELSE last_row(marker_rows(sheet, CLOSE_BRACKET))

\* one turn of the inner loop: Tuple(<<>>) when the row is omitted,
\* Tuple(<<line>>) when it appends a line, Raise when .replace is called on None
json_property(sheet, r, c) ==
    LET input_value == cell_value(cell(sheet, r, c), TRUE)
        template == cell_value_as_string(cell(sheet, r, 1))
    IN  IF IsNone(input_value) THEN Tuple(<<>>)
        ELSE IF IsNone(template) THEN Raise("AttributeError")
        ELSE Tuple(<<strip(replace(replace(replace(template.s, NBSP, <<>>),
                                           COMMA, <<>>),
                                   PLACEHOLDER, input_value.s))>>)

\* properties of column c after the rows r .. closing - 1
RECURSIVE json_properties(_, _, _, _)
json_properties(sheet, c, r, closing) ==
    IF r >= closing THEN Tuple(<<>>)
    ELSE LET p == json_property(sheet, r, c) IN
         IF IsRaise(p) THEN p
         ELSE LET rest == json_properties(sheet, c, r + 1, closing) IN
              IF IsRaise(rest) THEN rest ELSE Tuple(p.v \o rest.v)

json_body(properties) ==
    join(NEWLINE, <<TRIPLE_QUOTE, OPEN_BRACKET, join(COMMA \o NEWLINE, properties),
                    CLOSE_BRACKET, TRIPLE_QUOTE>>)

\* inputs after the columns c .. max_column
RECURSIVE json_inputs(_, _)
json_inputs(sheet, c) ==
    IF c > max_column(sheet) THEN Tuple(<<>>)
    ELSE LET properties == json_properties(sheet, c, opening_row(sheet) + 1,
                                           closing_row(sheet)) IN
         IF IsRaise(properties) THEN properties
         ELSE LET rest == json_inputs(sheet, c + 1) IN
              IF IsRaise(rest) THEN rest
              ELSE Tuple(<< <<cell_value_as_string(cell(sheet, 1, c)),
                              Str(json_body(properties.v))>> >> \o rest.v)

parse_json_input(sheet) ==
    IF opening_row(sheet) = 0 \/ closing_row(sheet) = 0 THEN None
    ELSE json_inputs(sheet, 2)

-----------------------------------------------------------------------------
(* parse_xml_input *)

\* is_structural without the trimming of the end tag
is_structural_untrimmed(sheet, r) ==
    LET end_tag == cell_value_as_string(cell(sheet, r, 2)) IN
    IsNone(end_tag) \/ end_tag.s = <<>>

is_structural(sheet, r) ==
    LET end_tag == cell_value_as_string(cell(sheet, r, 2)) IN
    IsNone(end_tag) \/ strip(end_tag.s) = <<>>

\* one turn of the inner loop: the values appended to properties (the start
\* tag of a structural row may be None), or Raise when None + str is computed
xml_property(sheet, r, c) ==
    LET start_tag == cell_value_as_string(cell(sheet, r, 1))
        end_tag == cell_value_as_string(cell(sheet, r, 2))
        input_value == cell_value(cell(sheet, r, c), TRUE)
    IN  IF is_structural(sheet, r) THEN Tuple(<<start_tag>>)
        ELSE IF IsNone(input_value) THEN Tuple(<<>>)
        ELSE IF IsNone(start_tag) THEN Raise("TypeError")
        ELSE Tuple(<<Str(start_tag.s \o input_value.s \o end_tag.s)>>)

RECURSIVE xml_properties(_, _, _)
xml_properties(sheet, c, r) ==
    IF r > max_row(sheet) THEN Tuple(<<>>)
    ELSE LET p == xml_property(sheet, r, c) IN
         IF IsRaise(p) THEN p
         ELSE LET rest == xml_properties(sheet, c, r + 1) IN
              IF IsRaise(rest) THEN rest ELSE Tuple(p.v \o rest.v)

\* '\n'.join of the properties raises on a None item
xml_body(properties) ==
    IF \E i \in 1..Len(properties) : IsNone(properties[i])
    THEN Raise("TypeError")
    ELSE Str(join(NEWLINE,
                  <<TRIPLE_QUOTE,
                    join(NEWLINE, [i \in 1..Len(properties) |-> properties[i].s]),
                    TRIPLE_QUOTE>>))

RECURSIVE xml_inputs(_, _)
xml_inputs(sheet, c) ==
    IF c > max_column(sheet) THEN Tuple(<<>>)
    ELSE LET properties == xml_properties(sheet, c, 3) IN
         IF IsRaise(properties) THEN properties
         ELSE IF IsRaise(xml_body(properties.v)) THEN xml_body(properties.v)
         ELSE LET rest == xml_inputs(sheet, c + 1) IN
              IF IsRaise(rest) THEN rest
              ELSE Tuple(<< <<cell_value_as_string(cell(sheet, 1, c)),
                              xml_body(properties.v)>> >> \o rest.v)

parse_xml_input(sheet) == xml_inputs(sheet, 3)

-----------------------------------------------------------------------------
(* parse_output *)

\* one turn of the inner loop: the (expression, value) pairs appended
output_property(sheet, r, c) ==
    LET output_value == cell_value(cell(sheet, r, c), FALSE) IN
    IF IsNone(output_value) THEN <<>>
    ELSE << <<cell_value_as_string(cell(sheet, r, 1)), output_value>> >>

RECURSIVE output_properties(_, _, _)
output_properties(sheet, c, r) ==
    IF r > max_row(sheet) THEN <<>>
    ELSE output_property(sheet, r, c) \o output_properties(sheet, c, r + 1)

RECURSIVE output_columns(_, _)
output_columns(sheet, c) ==
    IF c > max_column(sheet) THEN <<>>
    ELSE << <<cell_value_as_string(cell(sheet, 1, c)),
              output_properties(sheet, c, 2)>> >> \o output_columns(sheet, c + 1)

parse_output(sheet) == Tuple(output_columns(sheet, 2))

\* INPUT_PARSERS.keys() and the two tables' values
request_type_of(sheet) == cell_value_as_string(cell(sheet, 1, 1))

known_request_type(request_type) ==
    /\ ~IsNone(request_type)
    /\ request_type.s \in {KW_Json, KW_XMLTagNamesStart}

INPUT_PARSERS(request_type, sheet) ==
    IF request_type.s = KW_Json THEN parse_json_input(sheet)
    ELSE parse_xml_input(sheet)

INPUT_TYPES(request_type) ==
    IF request_type.s = KW_Json THEN LBL_json ELSE LBL_xml

-----------------------------------------------------------------------------
(* The sheets the parsers are applied to.  Body row i and data column j    *)
(* are counted from the first body row and the first data column.          *)

digit(n) == DIGITS[(n % 10) + 1]

header(j) == Str(<<"T", "C", digit(j)>>)

\* a value cell: a str in some places, an int in the others
value_cell(i, j) ==
    IF (i + j) % 2 = 0 THEN Str(<<"v", digit(i), digit(j)>>) ELSE Num(10 * i + j)

data_cell(kind, i, j) ==
    IF kind = "blank" THEN None
    ELSE IF kind = "sentinel" THEN Str(DO_NOT_INCLUDE)
    ELSE value_cell(i, j)

DataKinds == {"blank", "sentinel", "value"}

\* the patterns of kinds a column is filled with, and the kind of data cell
\* (i, j): column j holds the pattern rotated by j - 1 and repeated down the rows
KindPatterns == [1..Cardinality(DataKinds) -> DataKinds]

kind_at(kinds, i, j) == kinds[((i + j - 2) % Len(kinds)) + 1]

data_cells(kinds, i, width) ==
    [j \in 1..width |-> data_cell(kind_at(kinds, i, j), i, j)]

\* the numbers of data columns of the generated sheets
Widths == {0, MaxData}

headers(width) == [j \in 1..width |-> header(j)]

\* "k<i>": "string",   after a no-break space or a blank
template(i) ==
    (IF i % 2 = 1 THEN NBSP ELSE <<" ">>)
        \o <<"\"", "k", digit(i), "\"", ":", " ", "\"">> \o PLACEHOLDER \o <<"\"", ",">>

json_column1(what, i) ==
    IF what = "open" THEN Str(IF i % 2 = 1 THEN OPEN_BRACKET ELSE <<" ">> \o OPEN_BRACKET)
    ELSE IF what = "close" THEN Str(IF i % 2 = 1 THEN CLOSE_BRACKET \o <<" ">> ELSE CLOSE_BRACKET)
    ELSE IF what = "template" THEN Str(template(i))
    ELSE None

JsonColumn1 == {"open", "close", "template", "absent"}

JsonSheet(column1, kinds, width) ==
    [rows |-> << <<Str(KW_Json)>> \o headers(width) >>
              \o [i \in 1..MaxBody |->
                    <<json_column1(column1[i], i)>> \o data_cells(kinds, i, width)]]

XmlBody == MaxBody - 2

start_text(i) == <<"<", "t", digit(i), ">">>
end_text(i) == <<"<", "/", "t", digit(i), ">">>

xml_start(what, i) == IF what.start = "absent" THEN None ELSE Str(start_text(i))

xml_end(what, i) ==
    IF what.end = "absent" THEN None
    ELSE IF what.end = "blank" THEN Str(<<" ">>)
    ELSE Str(end_text(i))

XmlTags == [start : {"tag", "absent"}, end : {"tag", "absent", "blank"}]

XmlSheet(tags, kinds, width) ==
    [rows |-> << <<Str(KW_XMLTagNamesStart), None>> \o headers(width),
                 <<Str(<<"S">>), Str(<<"E">>)>> \o [j \in 1..width |-> None] >>
              \o [i \in 1..XmlBody |->
                    <<xml_start(tags[i], i), xml_end(tags[i], i)>>
                        \o data_cells(kinds, i, width)]]

expression_text(i) ==
    IF i = 1 THEN <<"R", "e", "s", "p", "o", "n", "s", "e", " ", "C", "o", "d", "e">>
    ELSE <<"/", "/", "k", digit(i)>>

expression_cell(what, i) == IF what = "absent" THEN None ELSE Str(expression_text(i))

\* the validation sheet of n body rows
ValidationSheet(expressions, kinds, n, width) ==
    [rows |-> << <<None>> \o headers(width) >>
              \o [i \in 1..n |->
                    <<expression_cell(expressions[i], i)>> \o data_cells(kinds, i, width)]]

\* A request sheet and the validation sheet that goes with it: the same data
\* cells, and an expression wherever the request sheet has a first-column text
JsonPair(column1, kinds, width) ==
    <<JsonSheet(column1, kinds, width),
      ValidationSheet([i \in 1..MaxBody |-> IF column1[i] = "absent" THEN "absent" ELSE "text"],
                      kinds, MaxBody, width)>>

XmlPair(tags, kinds, width) ==
    <<XmlSheet(tags, kinds, width),
      ValidationSheet([i \in 1..XmlBody |-> tags[i].start], kinds, XmlBody, width)>>

-----------------------------------------------------------------------------
(* SpecParse: the sheet parsers applied to the generated pairs of sheets *)

InitParse ==
    /\ \/ \E column1 \in [1..MaxBody -> JsonColumn1], kinds \in KindPatterns, width \in Widths :
             /\ request_sheet = JsonPair(column1, kinds, width)[1]
             /\ validation_sheet = JsonPair(column1, kinds, width)[2]
       \/ \E tags \in [1..XmlBody -> XmlTags], kinds \in KindPatterns, width \in Widths :
             /\ request_sheet = XmlPair(tags, kinds, width)[1]
             /\ validation_sheet = XmlPair(tags, kinds, width)[2]
    /\ inputs = Unset
    /\ outputs = Unset
    /\ row = Unset /\ parameters = Unset
    /\ testcase = Unset /\ rendered = Unset
    /\ input_dir = <<>> /\ entry_index = 0 /\ testcases = Unset
    /\ feature_files = {} /\ stderr = <<>> /\ driver = "idle"

\* lines 128-133 of parse_testcase: the parser the first cell selects
ParseInput ==
    /\ inputs = Unset
    /\ known_request_type(request_type_of(request_sheet))
    /\ inputs' = INPUT_PARSERS(request_type_of(request_sheet), request_sheet)
    /\ UNCHANGED <<request_sheet, validation_sheet, outputs, row_vars, render_vars,
                   driver_vars>>

\* line 134 of parse_testcase, reached when the input parser returned
ParseOutput ==
    /\ inputs # Unset
    /\ ~IsRaise(inputs)
    /\ outputs = Unset
    /\ outputs' = parse_output(validation_sheet)
    /\ UNCHANGED <<request_sheet, validation_sheet, inputs, row_vars, render_vars,
                   driver_vars>>

NextParse == ParseInput \/ ParseOutput

SpecParse == InitParse /\ [][NextParse]_vars

-----------------------------------------------------------------------------
(* parse_testcase_parameters.  A row is the sequence of its cells' values; *)
(* Python's row[k] is row[k + 1] here.  A dict is a function from keys.    *)

row_cell(r, k) == r[k + 1]

EmptyDict == [key \in {} |-> <<>>]

dict_set(d, key, value) ==
    [x \in DOMAIN d \cup {key} |-> IF x = key THEN value ELSE d[x]]

has_pair(r, object_index) ==
    /\ ~IsNone(row_cell(r, object_index))
    /\ ~IsNone(row_cell(r, object_index + 1))

\* the comprehension from object_index on, added to the dict d
RECURSIVE parameters_from(_, _, _)
parameters_from(r, object_index, d) ==
    IF object_index >= Len(r) - 1 THEN d
    ELSE IF has_pair(r, object_index)
         THEN parameters_from(r, object_index + 2,
                              dict_set(d, cell_value_as_string(row_cell(r, object_index)).s,
                                       cell_value_as_string(row_cell(r, object_index + 1)).s))
         ELSE parameters_from(r, object_index + 2, d)

\* the comprehension when it ends at the first pair with an absent cell
RECURSIVE parameters_until_gap(_, _, _)
parameters_until_gap(r, object_index, d) ==
    IF object_index >= Len(r) - 1 \/ ~has_pair(r, object_index) THEN d
    ELSE parameters_until_gap(r, object_index + 2,
                              dict_set(d, cell_value_as_string(row_cell(r, object_index)).s,
                                       cell_value_as_string(row_cell(r, object_index + 1)).s))

parse_testcase_parameters_until_gap(r) ==
    parameters_until_gap(r, TESTCASE_FIRST_OBJECT_NAME, EmptyDict)

parse_testcase_parameters(r) == parameters_from(r, TESTCASE_FIRST_OBJECT_NAME, EmptyDict)

-----------------------------------------------------------------------------
(* parse_testcase and parse_workbook.  A workbook is [loads, sheets]:      *)
(* loads is FALSE when openpyxl.load_workbook raises, sheets maps the      *)
(* sheets' names to the sheets.  A TestData row is [cells, number].        *)

TestCase(name, ins, outs, params, request_type) ==
    [k |-> "TestCase", name |-> name, inputs |-> ins, outputs |-> outs,
     parameters |-> params, request_type |-> request_type]

IsTestCase(x) == x.k = "TestCase"

testcase_name(r, number) ==
    format(cell_value_as_string(row_cell(r, TESTCASE_NAME))) \o UNDERSCORE \o str_int(number - 1)

has_sheets(workbook, params) ==
    /\ KEY_RequestSheet \in DOMAIN params
    /\ params[KEY_RequestSheet] \in DOMAIN workbook.sheets
    /\ KEY_ValidationSheet \in DOMAIN params
    /\ params[KEY_ValidationSheet] \in DOMAIN workbook.sheets

\* the return after both parsers have run: an exception of the input parser
\* passes through, a missing marker gives None
new_testcase(r, number, params, request_type, ins, outs) ==
    IF IsRaise(ins) THEN ins
    ELSE IF IsNone(ins) THEN None
    ELSE TestCase(testcase_name(r, number), ins.v, outs.v, params, INPUT_TYPES(request_type))

testcase_of(r, number, params, request, validation, request_type) ==
    IF ~known_request_type(request_type) THEN None
    ELSE new_testcase(r, number, params, request_type,
                      INPUT_PARSERS(request_type, request), parse_output(validation))

testcase_with(workbook, r, number, params) ==
    IF ~has_sheets(workbook, params) THEN None
    ELSE testcase_of(r, number, params,
                     workbook.sheets[params[KEY_RequestSheet]],
                     workbook.sheets[params[KEY_ValidationSheet]],
                     request_type_of(workbook.sheets[params[KEY_RequestSheet]]))

parse_testcase(workbook, r, number) ==
    testcase_with(workbook, r, number, parse_testcase_parameters(r))

\* the filter of the generator: row[TESTCASE_DESCRIPTION].value == 'XMLWebServiceTest'
is_testcase_row(r) ==
    r[TESTCASE_DESCRIPTION + 1] = Str(XML_WEB_SERVICE_TEST)

\* what parse_testcase prints to sys.stderr when it gives t for the row, or
\* what parse_workbook prints when t is an exception
testcase_diagnostic(workbook, r, t) ==
    IF IsRaise(t) THEN <<t.e>>
    ELSE IF ~IsNone(t) THEN <<>>
    ELSE IF ~has_sheets(workbook, parse_testcase_parameters(r))
         THEN <<"Missing request or validation sheet found">>
    ELSE IF ~known_request_type(
                request_type_of(workbook.sheets[parse_testcase_parameters(r)[KEY_RequestSheet]]))
         THEN <<"Unknown request type found">>
    ELSE <<"Missing opening or closing bracket in json request">>

\* the row's test case t put before what the rows after it give; an exception
\* ends the generator at the row that raises it
with_testcase(workbook, r, t, rest) ==
    IF IsRaise(t) THEN [result |-> t, printed |-> testcase_diagnostic(workbook, r, t)]
    ELSE [result |-> IF IsRaise(rest.result) \/ IsNone(t) THEN rest.result
                     ELSE Tuple(<<t>> \o rest.result.v),
          printed |-> testcase_diagnostic(workbook, r, t) \o rest.printed]

\* tuple(...) over the rows number .. max_row of TestData: the tuple or the
\* exception, and what is printed to sys.stderr meanwhile
RECURSIVE testcases_from(_, _)
testcases_from(workbook, number) ==
    IF number > max_row(workbook.sheets[SHEET_TestData])
    THEN [result |-> Tuple(<<>>), printed |-> <<>>]
    ELSE IF Len(workbook.sheets[SHEET_TestData].rows[number]) <= TESTCASE_DESCRIPTION
    THEN [result |-> Raise("IndexError"), printed |-> <<"IndexError">>]
    ELSE IF ~is_testcase_row(workbook.sheets[SHEET_TestData].rows[number])
    THEN testcases_from(workbook, number + 1)
    ELSE with_testcase(workbook, workbook.sheets[SHEET_TestData].rows[number],
                       parse_testcase(workbook, workbook.sheets[SHEET_TestData].rows[number],
                                      number),
                       testcases_from(workbook, number + 1))

\* except Exception: the exception is printed and None returned
caught(found) ==
    [result |-> IF IsRaise(found.result) THEN None ELSE found.result,
     printed |-> found.printed]

\* parse_workbook with what it prints to sys.stderr
run_parse_workbook(workbook) ==
    IF ~workbook.loads THEN [result |-> None, printed |-> <<"load_workbook failed">>]
    ELSE IF SHEET_TestData \notin DOMAIN workbook.sheets
    THEN [result |-> None, printed |-> <<"No TestData sheet found">>]
    ELSE caught(testcases_from(workbook, 2))

parse_workbook(workbook) == run_parse_workbook(workbook).result

-----------------------------------------------------------------------------
(* class TestCase *)

\* annotation when the prefix is compared without regard to case
annotation_any_case(name) ==
    IF startswith(lower(name), lower(SMOKE_PREFIX)) THEN SMOKE_ANNOTATION
    ELSE IF startswith(lower(name), lower(REGRESSION_PREFIX)) THEN REGRESSION_ANNOTATION
    ELSE <<>>

annotation(name) ==
    IF startswith(name, SMOKE_PREFIX) THEN SMOKE_ANNOTATION
    ELSE IF startswith(name, REGRESSION_PREFIX) THEN REGRESSION_ANNOTATION
    ELSE <<>>

\* the test without .lower()
is_response_code_exact_case(expression) == startswith(strip(expression), RESPONSE_CODE)

\* expression.lower().strip().startswith('response code')
is_response_code(expression) == startswith(strip(lower(expression)), RESPONSE_CODE)

assertion_prefix(index) == IF index = 0 THEN TXT_Then ELSE TXT_And

\* the line appended for outputs[index]; index counts from 0 as in the code
assertion_line(request_type, index, expression, value) ==
    IF is_response_code(expression)
    THEN assertion_prefix(index) \o TXT_ResponseCodeLine \o value
    ELSE assertion_prefix(index) \o TXT_ValidateThe \o request_type \o TXT_PathExpression
             \o expression \o TXT_ShouldBe \o value \o <<"\"">>

assertion_lines(request_type, assertions) ==
    [i \in 1..Len(assertions) |->
        assertion_line(request_type, i - 1, assertions[i][1].s, assertions[i][2].s)]

scenario(self, sc_input, sc_output) ==
    LET input_name == sc_input[1]
        body == sc_input[2]
        assertions == sc_output[2]
    IN  IF KEY_URL \notin DOMAIN self.parameters THEN Raise("KeyError")
        ELSE IF KEY_RequestHeader \notin DOMAIN self.parameters THEN Raise("KeyError")
        ELSE IF \E i \in 1..Len(assertions) : IsNone(assertions[i][1])
             THEN Raise("AttributeError")
        ELSE Str(join(NEWLINE,
                      <<annotation(self.name) \o TXT_Scenario \o format(input_name),
                        TXT_Given,
                        TXT_When \o self.parameters[KEY_URL] \o TXT_WithFollowing
                            \o self.request_type \o TXT_Body,
                        body.s,
                        TXT_Header \o self.parameters[KEY_RequestHeader] \o <<"\"">> >>
                      \o assertion_lines(self.request_type, assertions)))

min_len(a, b) == IF Len(a) <= Len(b) THEN Len(a) ELSE Len(b)

\* zip that pairs the inputs with the outputs taken from the last one back
zip_reversed(a, b) == [i \in 1..min_len(a, b) |-> <<a[i], b[Len(b) + 1 - i]>>]

\* zip(self.inputs, self.outputs)
zip(a, b) == [i \in 1..min_len(a, b) |-> <<a[i], b[i]>>]

\* the scenario of every pair, or the first exception one of them raises
rendered_pairs(self) ==
    LET pairs == zip(self.inputs, self.outputs)
        texts == [i \in 1..Len(pairs) |-> scenario(self, pairs[i][1], pairs[i][2])]
    IN  IF \E i \in 1..Len(texts) : IsRaise(texts[i])
        THEN texts[CHOOSE i \in 1..Len(texts) :
                     IsRaise(texts[i]) /\ \A q \in 1..(i - 1) : ~IsRaise(texts[q])]
        ELSE Tuple([i \in 1..Len(texts) |-> texts[i].s])

scenarios(self) == rendered_pairs(self)

feature(self) ==
    IF IsRaise(rendered_pairs(self)) THEN rendered_pairs(self)
    ELSE Str(join(NEWLINE \o NEWLINE,
                  <<TXT_Feature \o self.name>> \o rendered_pairs(self).v))

-----------------------------------------------------------------------------
(* Reading the parsers' results back: what the claims below are stated in  *)

contains(s, sub) ==
    \E i \in 1..(Len(s) - Len(sub) + 1) : SubSeq(s, i, i + Len(sub) - 1) = sub

\* the lines of a text, split at every newline
RECURSIVE split_lines(_)
split_lines(s) ==
    IF \A i \in 1..Len(s) : s[i] # "\n" THEN <<s>>
    ELSE LET n == CHOOSE i \in 1..Len(s) : s[i] = "\n" /\ \A q \in 1..(i - 1) : s[q] # "\n"
         IN  <<SubSeq(s, 1, n - 1)>> \o split_lines(SubSeq(s, n + 1, Len(s)))

\* the elements of a set of numbers in increasing order
RECURSIVE ascending(_)
ascending(S) ==
    IF S = {} THEN <<>>
    ELSE LET m == CHOOSE x \in S : \A y \in S : x <= y
         IN  <<m>> \o ascending(S \ {m})

without_comma(line) ==
    IF line # <<>> /\ line[Len(line)] = "," THEN SubSeq(line, 1, Len(line) - 1) ELSE line

\* the property lines of a bracketed body: what stands between the lines
\* """ { and } """, each line without the comma that joins it to the next
json_body_lines(body) ==
    LET lines == split_lines(body)
        middle == SubSeq(lines, 3, Len(lines) - 2)
    IN  IF middle = << <<>> >> THEN <<>>
        ELSE [i \in 1..Len(middle) |->
                 IF i < Len(middle) THEN without_comma(middle[i]) ELSE middle[i]]

\* the lines of a tag-pair body between the two """ lines
xml_body_lines(body) ==
    LET lines == split_lines(body)
        middle == SubSeq(lines, 2, Len(lines) - 1)
    IN  IF middle = << <<>> >> THEN <<>> ELSE middle

is_blank(value) == value = None
is_sentinel(value) == value = Str(DO_NOT_INCLUDE)

\* the text a value cell of the generated sheets is expected to render as
\* (their numbers have two digits)
text_of(value) ==
    IF value.k = "int" THEN <<digit(value.n \div 10), digit(value.n % 10)>>
    ELSE IF value.k = "str" THEN value.s
    ELSE <<>>

has_char(value, c) == value.k = "str" /\ \E i \in 1..Len(value.s) : value.s[i] = c

\* the line expected of row r of a bracketed sheet for the substitution text
expected_json_line(sheet, r, text) ==
    IF has_char(sheet.rows[r][1], "{") THEN OPEN_BRACKET
    ELSE IF has_char(sheet.rows[r][1], "}") THEN CLOSE_BRACKET
    ELSE <<"\"", "k", digit(r - 1), "\"", ":", " ", "\"">> \o text \o <<"\"">>

is_json(sheet) == sheet.rows[1][1] = Str(KW_Json)
is_xml(sheet) == sheet.rows[1][1] = Str(KW_XMLTagNamesStart)

\* the rows of a bracketed sheet that hold the last { and the last }
r_open(sheet) ==
    CHOOSE r \in 0..max_row(sheet) :
        /\ r # 0 => has_char(sheet.rows[r][1], "{")
        /\ \A q \in (r + 1)..max_row(sheet) : ~has_char(sheet.rows[q][1], "{")

r_close(sheet) ==
    CHOOSE r \in 0..max_row(sheet) :
        /\ r # 0 => has_char(sheet.rows[r][1], "}")
        /\ \A q \in (r + 1)..max_row(sheet) : ~has_char(sheet.rows[q][1], "}")

between_markers(sheet) == {r \in 1..max_row(sheet) : r_open(sheet) < r /\ r < r_close(sheet)}

json_lines(j) == json_body_lines(inputs.v[j][2].s)
xml_lines(j) == xml_body_lines(inputs.v[j][2].s)

json_parsed == is_json(request_sheet) /\ IsTuple(inputs)
xml_parsed == is_xml(request_sheet) /\ IsTuple(inputs)

\* a row of a tag-pair sheet whose end-tag cell is absent or blank
structural_row(sheet, r) ==
    \/ is_blank(sheet.rows[r][2])
    \/ \A i \in 1..Len(sheet.rows[r][2].s) : sheet.rows[r][2].s[i] = " "

xml_rows(sheet) == 3..max_row(sheet)

-----------------------------------------------------------------------------
(* Claims about the sheet parsers, checked under SpecParse *)

data_column(sheet, j) == IF is_xml(sheet) THEN j + 2 ELSE j + 1

key_of(r) == <<"\"", "k", digit(r - 1), "\"">>

emitting_json_rows(sheet, c) ==
    {r \in between_markers(sheet) : ~is_sentinel(sheet.rows[r][c])}

emitting_xml_rows(sheet, c) ==
    {r \in xml_rows(sheet) : structural_row(sheet, r) \/ ~is_sentinel(sheet.rows[r][c])}

asserted_rows(sheet, c) ==
    {r \in 2..max_row(sheet) : ~is_blank(sheet.rows[r][c]) /\ ~is_sentinel(sheet.rows[r][c])}

\* C1: a data cell holding exactly DONOTINCLUDE never shows in what its column
\* renders: the bracketed body has no line of that row and one line less, the
\* tag-pair body has no line of that value row, the assertion list has no
\* assertion of that row, and the sentinel text occurs in none of them.
C1_SentinelNeverRendered ==
    /\ json_parsed =>
          \A j \in 1..Len(inputs.v) :
              LET lines == json_lines(j)
                  omitted == {r \in between_markers(request_sheet) :
                                 is_sentinel(request_sheet.rows[r][j + 1])}
              IN  /\ ~contains(inputs.v[j][2].s, DO_NOT_INCLUDE)
                  /\ Len(lines) = Cardinality(between_markers(request_sheet))
                                    - Cardinality(omitted)
                  /\ \A r \in omitted :
                         \A i \in 1..Len(lines) : ~contains(lines[i], key_of(r))
    /\ xml_parsed =>
          \A j \in 1..Len(inputs.v) :
              LET lines == xml_lines(j)
                  omitted == {r \in xml_rows(request_sheet) :
                                 /\ ~structural_row(request_sheet, r)
                                 /\ is_sentinel(request_sheet.rows[r][j + 2])}
              IN  /\ ~contains(inputs.v[j][2].s, DO_NOT_INCLUDE)
                  /\ Len(lines) = Cardinality(xml_rows(request_sheet)) - Cardinality(omitted)
                  /\ \A r \in omitted :
                         ~is_blank(request_sheet.rows[r][1]) =>
                             \A i \in 1..Len(lines) :
                                 ~contains(lines[i], request_sheet.rows[r][1].s)
    /\ IsTuple(outputs) =>
          \A j \in 1..Len(outputs.v) :
              LET assertions == outputs.v[j][2]
                  omitted == {r \in 2..max_row(validation_sheet) :
                                 is_sentinel(validation_sheet.rows[r][j + 1])}
              IN  /\ \A i \in 1..Len(assertions) : assertions[i][2] # Str(DO_NOT_INCLUDE)
                  /\ Len(assertions) <= max_row(validation_sheet) - 1 - Cardinality(omitted)
                  /\ \A r \in omitted :
                         ~is_blank(validation_sheet.rows[r][1]) =>
                             \A i \in 1..Len(assertions) :
                                 assertions[i][1] # validation_sheet.rows[r][1]

C1_Witness ==
    /\ json_parsed
    /\ IsTuple(outputs)
    /\ \E j \in 1..Len(inputs.v) :
          /\ \E r \in between_markers(request_sheet) : is_sentinel(request_sheet.rows[r][j + 1])
          /\ Len(json_lines(j)) >= 1
          /\ Len(outputs.v[j][2]) >= 1

empty_value_line(r) == key_of(r) \o <<":", " ", "\"", "\"">>

\* C2: a blank request cell of a value row still yields its line, with the
\* empty string as the value; a blank validation cell yields no assertion: a
\* column's assertions are exactly the rows whose cell is neither blank nor
\* the sentinel, in row order.
C2_BlankInputKeptBlankOutputOmitted ==
    /\ json_parsed =>
          \A j \in 1..Len(inputs.v) :
              LET lines == json_lines(j) IN
              \A r \in between_markers(request_sheet) :
                  (is_blank(request_sheet.rows[r][j + 1])
                     /\ ~has_char(request_sheet.rows[r][1], "{")
                     /\ ~has_char(request_sheet.rows[r][1], "}")) =>
                      \E i \in 1..Len(lines) : lines[i] = empty_value_line(r)
    /\ xml_parsed =>
          \A j \in 1..Len(inputs.v) :
              LET lines == xml_lines(j) IN
              \A r \in xml_rows(request_sheet) :
                  (is_blank(request_sheet.rows[r][j + 2]) /\ ~structural_row(request_sheet, r)) =>
                      \E i \in 1..Len(lines) :
                          lines[i] = request_sheet.rows[r][1].s \o request_sheet.rows[r][2].s
    /\ IsTuple(outputs) =>
          \A j \in 1..Len(outputs.v) :
              LET kept == ascending(asserted_rows(validation_sheet, j + 1)) IN
              /\ Len(outputs.v[j][2]) = Len(kept)
              /\ \A i \in 1..Len(kept) :
                     outputs.v[j][2][i] =
                         <<validation_sheet.rows[kept[i]][1],
                           Str(text_of(validation_sheet.rows[kept[i]][j + 1]))>>

C2_Witness ==
    /\ json_parsed
    /\ IsTuple(outputs)
    /\ \E j \in 1..Len(inputs.v) :
          /\ \E r \in between_markers(request_sheet) :
                /\ is_blank(request_sheet.rows[r][j + 1])
                /\ \E i \in 1..Len(json_lines(j)) : json_lines(j)[i] = empty_value_line(r)
          /\ \E r \in 2..max_row(validation_sheet) :
                is_blank(validation_sheet.rows[r][j + 1])
          /\ Len(outputs.v[j][2]) >= 1

\* C3: with the opening marker above the closing marker, a column's property
\* lines come from exactly the rows strictly between the two, less those
\* whose data cell is the sentinel, in row order; and there is one
\* (scenario name, body) entry per column 2 .. max_column, in column order.
C3_RowsBetweenMarkers ==
    (json_parsed /\ r_open(request_sheet) < r_close(request_sheet)) =>
        /\ Len(inputs.v) = max_column(request_sheet) - 1
        /\ \A j \in 1..Len(inputs.v) :
              LET kept == ascending(emitting_json_rows(request_sheet, j + 1))
                  lines == json_lines(j)
              IN  /\ inputs.v[j][1] = request_sheet.rows[1][j + 1]
                  /\ Len(lines) = Len(kept)
                  /\ \A i \in 1..Len(kept) :
                         lines[i] =
                             expected_json_line(request_sheet, kept[i],
                                                text_of(request_sheet.rows[kept[i]][j + 1]))

C3_Witness ==
    /\ json_parsed
    /\ r_open(request_sheet) = 3
    /\ r_close(request_sheet) = 5
    /\ Len(inputs.v) = 2
    /\ Len(json_lines(1)) = 1
    /\ Len(json_lines(2)) = 0
    /\ request_sheet.rows[2][1] = Str(template(1))

\* C10: in the tag-pair dialect a row whose end-tag cell is absent or blank
\* emits its start tag verbatim whatever the data cell holds; any other row
\* is skipped when its data cell is the sentinel and emits start tag, value
\* and end tag otherwise, the value of a blank cell being the empty string.
\* The lines keep the rows' order.
C10_TagPairRows ==
    xml_parsed =>
        \A j \in 1..Len(inputs.v) :
            LET kept == ascending(emitting_xml_rows(request_sheet, j + 2))
                lines == xml_lines(j)
            IN  /\ Len(lines) = Len(kept)
                /\ \A i \in 1..Len(kept) :
                       lines[i] =
                           IF structural_row(request_sheet, kept[i])
                           THEN request_sheet.rows[kept[i]][1].s
                           ELSE request_sheet.rows[kept[i]][1].s
                                    \o text_of(request_sheet.rows[kept[i]][j + 2])
                                    \o request_sheet.rows[kept[i]][2].s

C10_Witness ==
    /\ xml_parsed
    /\ \E j \in 1..Len(inputs.v) :
          /\ \E r \in xml_rows(request_sheet) :
                structural_row(request_sheet, r) /\ is_sentinel(request_sheet.rows[r][j + 2])
          /\ \E r \in xml_rows(request_sheet) :
                ~structural_row(request_sheet, r) /\ is_blank(request_sheet.rows[r][j + 2])
          /\ Len(xml_lines(j)) = 2

-----------------------------------------------------------------------------
(* SpecParams: parse_testcase_parameters applied to generated TestData rows *)

\* the cells before the parameter table: a name and the description marker
leading_cells ==
    <<None, Str(<<"L", "o", "g", "i", "n">>), Str(XML_WEB_SERVICE_TEST),
      None, None, None, None, None, None>>

\* the value cell of pair p: a text of its own, or a number of its own
pair_value(p) == IF p % 2 = 1 THEN Str(<<"v", digit(p)>>) ELSE Num(40 + p)

key_cell(what) ==
    IF what.key = "absent" THEN None
    ELSE IF what.key = "URL" THEN Str(KEY_URL)
    ELSE Str(KEY_RequestHeader)
pair_value_cell(what, p) == IF what.value = "absent" THEN None ELSE pair_value(p)

PairKinds == [key : {"URL", "RequestHeader", "absent"}, value : {"present", "absent"}]

\* a row of n pairs and, when trailing, a last key cell with no value cell
RECURSIVE pair_cells(_, _)
pair_cells(pairs, p) ==
    IF p > Len(pairs) THEN <<>>
    ELSE <<key_cell(pairs[p]), pair_value_cell(pairs[p], p)>> \o pair_cells(pairs, p + 1)

TestDataRow(pairs, trailing) ==
    leading_cells \o pair_cells(pairs, 1) \o (IF trailing THEN <<Str(KEY_URL)>> ELSE <<>>)

InitParams ==
    /\ \E n \in 0..MaxPairs :
          \E pairs \in [1..n -> PairKinds], trailing \in BOOLEAN :
              row = TestDataRow(pairs, trailing)
    /\ parameters = Unset
    /\ request_sheet = Unset /\ validation_sheet = Unset
    /\ inputs = Unset /\ outputs = Unset
    /\ testcase = Unset /\ rendered = Unset
    /\ input_dir = <<>> /\ entry_index = 0 /\ testcases = Unset
    /\ feature_files = {} /\ stderr = <<>> /\ driver = "idle"

\* line 121 of parse_testcase
ParseParameters ==
    /\ parameters = Unset
    /\ parameters' = [k |-> "dict", d |-> parse_testcase_parameters(row)]
    /\ UNCHANGED <<row, parse_vars, render_vars, driver_vars>>

NextParams == ParseParameters

SpecParams == InitParams /\ [][NextParams]_vars

-----------------------------------------------------------------------------
(* Claim about parse_testcase_parameters, checked under SpecParams *)

\* the pairs of a row, counted from 1, and their cells
pair_count(r) == (Len(r) - TESTCASE_FIRST_OBJECT_NAME) \div 2
pair_key(r, p) == r[TESTCASE_FIRST_OBJECT_NAME + 2 * p - 1]
pair_text(r, p) == r[TESTCASE_FIRST_OBJECT_NAME + 2 * p]
complete(r, p) == ~is_blank(pair_key(r, p)) /\ ~is_blank(pair_text(r, p))

\* pair p is in the map: its key maps to its own value (every value cell of a
\* generated row differs from the others)
included(r, p) ==
    /\ pair_key(r, p).s \in DOMAIN parameters.d
    /\ parameters.d[pair_key(r, p).s] = text_of(pair_text(r, p))

parameters_parsed == parameters # Unset

\* C8 as stated: no pair that stands after a pair with an absent key cell or
\* an absent value cell is ever in the returned map.
C8_StopsAtFirstIncompletePair ==
    parameters_parsed =>
        \A p \in 1..pair_count(row) :
            (\E q \in 1..(p - 1) : ~complete(row, q)) =>
                ~(complete(row, p) /\ included(row, p))

\* C8 amended: the scan does not stop.  A pair with an absent key cell or an
\* absent value cell adds nothing, and every other pair is read wherever it
\* stands: the map's keys are the keys of the complete pairs, and a key maps
\* to the value of the last complete pair that has it.
C8_SkipsIncompletePairs ==
    parameters_parsed =>
        /\ DOMAIN parameters.d =
               {pair_key(row, p).s : p \in {q \in 1..pair_count(row) : complete(row, q)}}
        /\ \A p \in 1..pair_count(row) :
               (/\ complete(row, p)
                /\ \A q \in (p + 1)..pair_count(row) :
                       complete(row, q) => pair_key(row, q) # pair_key(row, p))
                   => included(row, p)

C8_Witness ==
    /\ parameters_parsed
    /\ pair_count(row) = 3
    /\ ~complete(row, 1)
    /\ complete(row, 2) /\ included(row, 2)
    /\ complete(row, 3) /\ included(row, 3)

-----------------------------------------------------------------------------
(* SpecRender: TestCase.scenarios and TestCase.feature applied to generated *)
(* test cases                                                               *)

NameCells ==
    {Str(<<"S", "_", "a">>), Str(<<"R", "_", "a">>), Str(<<"S">>), Str(<<"R">>),
     Str(<<"s", "_", "a">>), Str(<<"a">>), None}

\* the expression cells the assertions are drawn from, in a ring
ExpressionCells ==
    <<Str(<<"R", "e", "s", "p", "o", "n", "s", "e", " ", "C", "o", "d", "e">>),
      Str(<<"/", "/", "k">>),
      Str(<<" ", "r", "e", "s", "p", "o", "n", "s", "e", " ", "c", "o", "d", "e", "\t">>),
      Str(<<"R", "e", "s", "p", "o", "n", "s", "e", " ", " ", "C", "o", "d", "e">>),
      Str(<<"R", "E", "S", "P", "O", "N", "S", "E", " ", "C", "O", "D", "E", " ", "2">>),
      None,
      Str(<<"R", "e", "s", "p", "o", "n", "s", "e", "C", "o", "d", "e">>),
      Str(<<"c", "o", "d", "e">>)>>

ring(start, offset) == ExpressionCells[((start + offset - 1) % Len(ExpressionCells)) + 1]

scenario_value(i, j) == Str(<<"2", digit(i), digit(j)>>)

\* the assertions of validation column j: count cells of the ring from start + j - 1
scenario_assertions(start, count, j) ==
    [i \in 1..count |-> <<ring(start, i + j - 2), scenario_value(i, j)>>]

\* the outputs carry the inputs' scenario names in the opposite order
scenario_outputs(start, count, n) ==
    [j \in 1..n |-> <<header(n + 1 - j), scenario_assertions(start, count, j)>>]

scenario_body(request_type, j) ==
    IF request_type = LBL_json
    THEN Str(json_body(<< <<"\"", "k", "\"", ":", " ", "\"", "v", digit(j), "\"">> >>))
    ELSE xml_body(<<Str(<<"<", "t", ">", "v", digit(j), "<", "/", "t", ">">>)>>)

scenario_inputs(request_type, n) ==
    [j \in 1..n |-> <<header(j), scenario_body(request_type, j)>>]

url_text == <<"/", "a", "p", "i">>
header_text == <<"a", "/", "j">>

scenario_parameters(missing) ==
    IF missing = "URL" THEN dict_set(EmptyDict, KEY_RequestHeader, header_text)
    ELSE IF missing = "RequestHeader" THEN dict_set(EmptyDict, KEY_URL, url_text)
    ELSE dict_set(dict_set(EmptyDict, KEY_URL, url_text), KEY_RequestHeader, header_text)

InitRender ==
    /\ \E name_cell \in NameCells, request_type \in {LBL_json, LBL_xml},
          n_inputs \in 0..MaxScenarios, n_outputs \in 0..MaxScenarios,
          start \in 1..Len(ExpressionCells), count \in 0..MaxAssertions,
          missing \in {"nothing", "URL", "RequestHeader"} :
              testcase = TestCase(testcase_name(<<None, name_cell>>, 2),
                                  scenario_inputs(request_type, n_inputs),
                                  scenario_outputs(start, count, n_outputs),
                                  scenario_parameters(missing),
                                  request_type)
    /\ rendered = Unset
    /\ request_sheet = Unset /\ validation_sheet = Unset
    /\ inputs = Unset /\ outputs = Unset
    /\ row = Unset /\ parameters = Unset
    /\ input_dir = <<>> /\ entry_index = 0 /\ testcases = Unset
    /\ feature_files = {} /\ stderr = <<>> /\ driver = "idle"

Scenarios ==
    /\ rendered = Unset
    /\ rendered' = [method |-> "scenarios", result |-> scenarios(testcase)]
    /\ UNCHANGED <<testcase, parse_vars, row_vars, driver_vars>>

Feature ==
    /\ rendered = Unset
    /\ rendered' = [method |-> "feature", result |-> feature(testcase)]
    /\ UNCHANGED <<testcase, parse_vars, row_vars, driver_vars>>

NextRender == Scenarios \/ Feature

SpecRender == InitRender /\ [][NextRender]_vars

-----------------------------------------------------------------------------
(* Claims about TestCase.scenarios and TestCase.feature, under SpecRender  *)

SMOKE_TAG == <<"@", "S", "m", "o", "k", "e", "T", "e", "s", "t">>
REGRESSION_TAG ==
    <<"@", "R", "e", "g", "r", "e", "s", "s", "i", "o", "n", "T", "e", "s", "t">>

scenarios_rendered == rendered # Unset /\ rendered.method = "scenarios" /\ IsTuple(rendered.result)
feature_rendered == rendered # Unset /\ rendered.method = "feature" /\ IsStr(rendered.result)

name_begins(c) ==
    Len(testcase.name) >= 2 /\ testcase.name[1] = c /\ testcase.name[2] = "_"

expected_tag ==
    IF name_begins("S") THEN SMOKE_TAG
    ELSE IF name_begins("R") THEN REGRESSION_TAG
    ELSE <<>>

pair_total == min_len(testcase.inputs, testcase.outputs)

occurrences(lines, line) == Cardinality({i \in 1..Len(lines) : lines[i] = line})

\* C4: every scenario of a case whose name starts with S_ begins with the line
\* @SmokeTest, of a case whose name starts with R_ with the line
\* @RegressionTest, each followed by the Scenario: line; of any other case it
\* begins with the Scenario: line and has no tag line.  All scenarios of a
\* case carry the same tag.
C4_TagFollowsNamePrefix ==
    /\ scenarios_rendered =>
          \A i \in 1..Len(rendered.result.v) :
              LET lines == split_lines(rendered.result.v[i]) IN
              IF expected_tag # <<>>
              THEN /\ lines[1] = expected_tag
                   /\ startswith(lines[2], TXT_Scenario)
                   /\ occurrences(lines, SMOKE_TAG) + occurrences(lines, REGRESSION_TAG) = 1
              ELSE /\ startswith(lines[1], TXT_Scenario)
                   /\ occurrences(lines, SMOKE_TAG) + occurrences(lines, REGRESSION_TAG) = 0
    /\ feature_rendered =>
          LET lines == split_lines(rendered.result.s) IN
          /\ occurrences(lines, SMOKE_TAG) = (IF name_begins("S") THEN pair_total ELSE 0)
          /\ occurrences(lines, REGRESSION_TAG) = (IF name_begins("R") THEN pair_total ELSE 0)

C4_Witness ==
    /\ scenarios_rendered
    /\ name_begins("S")
    /\ Len(rendered.result.v) = 2
    /\ split_lines(rendered.result.v[2])[1] = SMOKE_TAG

\* the line rendered for assertion i of scenario text: the assertions are the
\* last lines of the text
rendered_assertion(text, assertions, i) ==
    LET lines == split_lines(text) IN lines[Len(lines) - Len(assertions) + i]

status_code_line(i, value) ==
    (IF i = 1 THEN TXT_Then ELSE TXT_And) \o TXT_ResponseCodeLine \o value

without_whitespace(s) == SelectSeq(s, LAMBDA c : c \notin WHITESPACE)

\* the expression is the phrase 'response code' but for case and whitespace
matches_phrase(expression) ==
    without_whitespace(lower(expression)) = without_whitespace(RESPONSE_CODE)

\* the expression, lower-cased and trimmed at both ends, starts with the phrase
starts_with_phrase(expression) ==
    LET e == lower(expression)
        first == CHOOSE i \in 1..(Len(e) + 1) :
                     /\ \A q \in 1..(i - 1) : e[q] \in WHITESPACE
                     /\ i <= Len(e) => e[i] \notin WHITESPACE
    IN  /\ Len(e) >= first + Len(RESPONSE_CODE) - 1
        /\ \A q \in 1..Len(RESPONSE_CODE) : e[first + q - 1] = RESPONSE_CODE[q]

\* C5 as stated: an assertion whose expression matches 'response code' without
\* regard to case and to whitespace renders as the status-code assertion with
\* the raw value, never as the path-expression assertion.
C5_AnyWhitespaceMatches ==
    scenarios_rendered =>
        \A j \in 1..Len(rendered.result.v) :
            LET assertions == testcase.outputs[j][2] IN
            \A i \in 1..Len(assertions) :
                matches_phrase(assertions[i][1].s) =>
                    rendered_assertion(rendered.result.v[j], assertions, i)
                        = status_code_line(i, assertions[i][2].s)

\* C5 amended: an assertion whose expression, lower-cased and with the
\* whitespace at its two ends removed, starts with 'response code' (the two
\* words one blank apart) renders as the status-code assertion with the raw
\* value, in either dialect, and never as the path-expression assertion.
C5_TrimmedLowerPrefix ==
    scenarios_rendered =>
        \A j \in 1..Len(rendered.result.v) :
            LET assertions == testcase.outputs[j][2] IN
            \A i \in 1..Len(assertions) :
                starts_with_phrase(assertions[i][1].s) =>
                    LET line == rendered_assertion(rendered.result.v[j], assertions, i) IN
                    /\ line = status_code_line(i, assertions[i][2].s)
                    /\ ~contains(line, TXT_PathExpression)

C5_Witness ==
    /\ scenarios_rendered
    /\ testcase.request_type = LBL_xml
    /\ \E j \in 1..Len(rendered.result.v) :
          LET assertions == testcase.outputs[j][2] IN
          /\ Len(assertions) = 2
          /\ assertions[2][1] = ExpressionCells[5]
          /\ rendered_assertion(rendered.result.v[j], assertions, 2)
                 = status_code_line(2, assertions[2][2].s)
          /\ contains(rendered_assertion(rendered.result.v[j], assertions, 1),
                      TXT_PathExpression)

\* the title line of a scenario text
title_line(text) ==
    LET lines == split_lines(text) IN
    IF lines[1] \in {SMOKE_TAG, REGRESSION_TAG} THEN lines[2] ELSE lines[1]

\* what can make the rendering of the first pair_total pairs raise
render_can_raise ==
    /\ pair_total >= 1
    /\ \/ KEY_URL \notin DOMAIN testcase.parameters
       \/ KEY_RequestHeader \notin DOMAIN testcase.parameters
       \/ \E j \in 1..pair_total :
             \E i \in 1..Len(testcase.outputs[j][2]) : is_blank(testcase.outputs[j][2][i][1])

\* C9: scenarios() and feature() render min(len(inputs), len(outputs))
\* scenarios, the i-th from inputs[i] and outputs[i] whatever their names, in
\* increasing i; the entries of the longer sequence beyond that are dropped
\* and raise nothing.
C9_PairedByPosition ==
    /\ rendered # Unset => (IsRaise(rendered.result) => render_can_raise)
    /\ scenarios_rendered =>
          /\ Len(rendered.result.v) = pair_total
          /\ \A i \in 1..pair_total :
                 /\ rendered.result.v[i]
                        = scenario(testcase, testcase.inputs[i], testcase.outputs[i]).s
                 /\ title_line(rendered.result.v[i])
                        = TXT_Scenario \o testcase.inputs[i][1].s
                 /\ Len(split_lines(rendered.result.v[i]))
                        = Len(split_lines(annotation(testcase.name)))
                            + 3 + Len(split_lines(testcase.inputs[i][2].s))
                            + Len(testcase.outputs[i][2])
                 /\ \A k \in 1..Len(testcase.outputs[i][2]) :
                        contains(rendered_assertion(rendered.result.v[i],
                                                    testcase.outputs[i][2], k),
                                 testcase.outputs[i][2][k][2].s)
    /\ feature_rendered =>
          rendered.result.s
              = join(NEWLINE \o NEWLINE,
                     <<TXT_Feature \o testcase.name>>
                         \o [i \in 1..pair_total |->
                               scenario(testcase, testcase.inputs[i], testcase.outputs[i]).s])

C9_Witness ==
    /\ scenarios_rendered
    /\ Len(testcase.inputs) = 1
    /\ Len(testcase.outputs) = 2
    /\ Len(testcase.outputs[1][2]) = 2
    /\ testcase.outputs[1][1] # testcase.inputs[1][1]
    /\ Len(rendered.result.v) = 1

-----------------------------------------------------------------------------
(* Spec: the driver loop over the entries of the input directory.  The     *)
(* workbooks are generated from the kinds of their TestData rows.          *)

CaseKinds ==
    {"json", "xml", "other_row", "no_request_sheet", "no_sheet_key", "no_marker",
     "unknown_type", "absent_template", "absent_start_tag", "absent_expression", "no_url"}

request_name(i) == <<"R", "e", "q", digit(i)>>
validation_name(i) == <<"V", "a", "l", digit(i)>>

case_kinds == <<"value", "blank", "sentinel">>

\* the first column of the bracketed sheet of a case: { first, } last
case_column1(kind) ==
    [i \in 1..MaxBody |->
        IF i = 1 THEN "open"
        ELSE IF i = MaxBody THEN (IF kind = "no_marker" THEN "template" ELSE "close")
        ELSE IF i = 2 /\ kind = "absent_template" THEN "absent"
        ELSE "template"]

case_tags(kind) ==
    [i \in 1..XmlBody |->
        [start |-> IF i = 1 /\ kind = "absent_start_tag" THEN "absent" ELSE "tag",
         end |-> "tag"]]

case_request_sheet(kind) ==
    IF kind \in {"xml", "absent_start_tag"} THEN XmlSheet(case_tags(kind), case_kinds, 1)
    ELSE IF kind = "unknown_type"
         THEN [rows |-> [JsonSheet(case_column1(kind), case_kinds, 1).rows
                            EXCEPT ![1][1] = Str(LBL_json)]]
    ELSE JsonSheet(case_column1(kind), <<"blank", "value", "sentinel">>, 1)

case_validation_sheet(kind) ==
    ValidationSheet([i \in 1..2 |-> IF i = 1 /\ kind = "absent_expression"
                                    THEN "absent" ELSE "text"],
                    case_kinds, 2, 1)

case_name_cell(i) ==
    IF i % 2 = 1 THEN Str(<<"S", "_", "l", "o", "g", "i", "n">>) ELSE Str(<<"p", "a", "y">>)

\* the TestData row of case i
case_row(kind, i) ==
    <<None, case_name_cell(i),
      IF kind = "other_row" THEN Str(<<"O", "t", "h", "e", "r">>) ELSE Str(XML_WEB_SERVICE_TEST),
      None, None, None, None, None, None,
      IF kind = "no_sheet_key" THEN None ELSE Str(KEY_RequestSheet), Str(request_name(i)),
      Str(KEY_ValidationSheet), Str(validation_name(i)),
      IF kind = "no_url" THEN None ELSE Str(KEY_URL), Str(url_text),
      Str(KEY_RequestHeader), Str(header_text)>>

header_row == [c \in 1..17 |-> None]

RECURSIVE case_sheets(_, _)
case_sheets(kinds, i) ==
    IF i > Len(kinds) THEN EmptyDict
    ELSE LET rest == dict_set(case_sheets(kinds, i + 1), validation_name(i),
                              case_validation_sheet(kinds[i]))
         IN  IF kinds[i] = "no_request_sheet" THEN rest
             ELSE dict_set(rest, request_name(i), case_request_sheet(kinds[i]))

Workbook(kinds) ==
    [loads |-> TRUE,
     sheets |-> dict_set(case_sheets(kinds, 1), SHEET_TestData,
                         [rows |-> <<header_row>>
                                     \o [i \in 1..Len(kinds) |-> case_row(kinds[i], i)]])]

NoWorkbook == [loads |-> FALSE, sheets |-> EmptyDict]

\* entry i of the directory: a workbook file, a workbook without TestData, a
\* file load_workbook cannot read, another file, or a directory
entry_name(i, extension) == <<"w", digit(i)>> \o extension

WorkbookEntry(i, kinds) ==
    [name |-> entry_name(i, XLSX), is_file |-> TRUE, workbook |-> Workbook(kinds)]

OtherEntry(i, what) ==
    IF what = "no_testdata"
    THEN [name |-> entry_name(i, XLSX), is_file |-> TRUE,
          workbook |-> [loads |-> TRUE, sheets |-> case_sheets(<<"json">>, 1)]]
    ELSE IF what = "corrupt"
    THEN [name |-> entry_name(i, XLSX), is_file |-> TRUE, workbook |-> NoWorkbook]
    ELSE IF what = "text_file"
    THEN [name |-> entry_name(i, <<".", "t", "x", "t">>), is_file |-> TRUE,
          workbook |-> NoWorkbook]
    ELSE [name |-> entry_name(i, XLSX), is_file |-> FALSE, workbook |-> NoWorkbook]

OtherEntries == {"no_testdata", "corrupt", "text_file", "directory"}

\* what an entry can be: one of the other entries, or a workbook given by the
\* kinds of its TestData rows
EntryChoices ==
    {<<what>> : what \in OtherEntries} \cup UNION {[1..n -> CaseKinds] : n \in 1..MaxCases}

Entry(i, choice) ==
    IF choice[1] \in OtherEntries THEN OtherEntry(i, choice[1]) ELSE WorkbookEntry(i, choice)

Init ==
    /\ \E n \in 1..MaxEntries :
          \E choice \in [1..n -> EntryChoices] :
              input_dir = [i \in 1..n |-> Entry(i, choice[i])]
    /\ entry_index = 0
    /\ testcases = Unset
    /\ feature_files = {}
    /\ stderr = <<>>
    /\ driver = "running"
    /\ request_sheet = Unset /\ validation_sheet = Unset
    /\ inputs = Unset /\ outputs = Unset
    /\ row = Unset /\ parameters = Unset
    /\ testcase = Unset /\ rendered = Unset

is_workbook_file(entry) == entry.is_file /\ endswith(entry.name, XLSX)

\* entry.name[:-5]
file_name(entry) == SubSeq(entry.name, 1, Len(entry.name) - 5)

\* testcase.feature() of each test case of the workbook
features(cases) == [k \in 1..Len(cases) |-> feature(cases[k])]

raises(fs) == {k \in 1..Len(fs) : IsRaise(fs[k])}

first_raise(fs) == CHOOSE k \in raises(fs) : \A q \in raises(fs) : k <= q

\* the number of test cases the inner loop opens a file for: all of them, or
\* those up to the first whose feature() raises
opened(fs) == IF raises(fs) = {} THEN Len(fs) ELSE first_raise(fs)

\* the file of one test case: print(testcase.feature(), file=feature_file)
\* into a file that open(..., "w") has already created
feature_file(entry, t, text) ==
    [dir |-> file_name(entry),
     name |-> t.name \o FEATURE_EXT,
     content |-> IF IsRaise(text) THEN <<>> ELSE text.s \o NEWLINE]

write_features(entry, cases, fs) ==
    {feature_file(entry, cases[k], fs[k]) : k \in 1..opened(fs)}

\* the exception that ends the script: iterating over None, or the first
\* exception of feature()
uncaught(result, fs) ==
    IF IsNone(result) THEN <<"TypeError">>
    ELSE IF raises(fs) # {} THEN <<fs[first_raise(fs)].e>>
    ELSE <<>>

current == input_dir[entry_index + 1]

\* an entry that is no .xlsx file: the loop goes on to the next entry
SkipEntry ==
    /\ driver = "running"
    /\ entry_index < Len(input_dir)
    /\ ~is_workbook_file(current)
    /\ entry_index' = entry_index + 1
    /\ UNCHANGED <<input_dir, testcases, feature_files, stderr, driver,
                   parse_vars, row_vars, render_vars>>

\* what the loop over parse_workbook's return leaves behind
Write(entry, parsed, cases, fs) ==
    /\ testcases' = parsed.result
    /\ feature_files' = feature_files \cup write_features(entry, cases, fs)
    /\ stderr' = stderr \o parsed.printed \o uncaught(parsed.result, fs)
    /\ driver' = IF uncaught(parsed.result, fs) = <<>> THEN "running" ELSE "crashed"

Render(entry, parsed, cases) == Write(entry, parsed, cases, features(cases))

Process(entry, parsed) ==
    Render(entry, parsed, IF IsNone(parsed.result) THEN <<>> ELSE parsed.result.v)

\* lines 209-215 for one .xlsx file.  Iterating over None raises TypeError and
\* an exception of feature() is not caught either: both end the script.
ProcessWorkbook ==
    /\ driver = "running"
    /\ entry_index < Len(input_dir)
    /\ is_workbook_file(current)
    /\ entry_index' = entry_index + 1
    /\ Process(current, run_parse_workbook(current.workbook))
    /\ UNCHANGED <<input_dir, parse_vars, row_vars, render_vars>>

\* the directory is exhausted: the script ends
Finish ==
    /\ driver = "running"
    /\ entry_index = Len(input_dir)
    /\ driver' = "done"
    /\ UNCHANGED <<input_dir, entry_index, testcases, feature_files, stderr,
                   parse_vars, row_vars, render_vars>>

Next == SkipEntry \/ ProcessWorkbook \/ Finish

Spec == Init /\ [][Next]_vars

-----------------------------------------------------------------------------
(* The driver's claims *)

workbook_at(i) == input_dir[i].workbook

is_workbook(i) == is_workbook_file(input_dir[i])

\* parse_workbook returns None for the workbook of entry i
fails_to_parse(i) == IsNone(parse_workbook(workbook_at(i)))

cases_at(i) == parse_workbook(workbook_at(i)).v

\* every test case of the workbook of entry i renders
renders(i) == raises(features(cases_at(i))) = {}

\* the feature files of the workbook of entry i
files_of(i) == write_features(input_dir[i], cases_at(i), features(cases_at(i)))

\* the entry whose workbook the loop has parsed last
last_workbook ==
    CHOOSE i \in 1..entry_index :
        /\ is_workbook(i)
        /\ \A q \in 1..entry_index : is_workbook(q) => q <= i

test_data_rows(i) == workbook_at(i).sheets[SHEET_TestData].rows

\* C6: when the script has ended and no test case failed to render, every
\* workbook of the directory that parse_workbook parses has its feature files
\* written, whatever workbooks of the directory failed to parse.
C6_FailedWorkbookLeavesOthers ==
    (/\ driver # "running"
     /\ \A i \in 1..Len(input_dir) : (is_workbook(i) /\ ~fails_to_parse(i)) => renders(i))
        => \A i \in 1..Len(input_dir) :
               (is_workbook(i) /\ ~fails_to_parse(i)) => files_of(i) \subseteq feature_files

\* C7: once a workbook has been parsed, every qualifying row of its TestData
\* sheet that parse_testcase turns into a test case is among the workbook's
\* test cases, whatever happened to the other rows.
C7_FailedCaseLeavesSiblings ==
    (/\ testcases # Unset
     /\ workbook_at(last_workbook).loads
     /\ SHEET_TestData \in DOMAIN workbook_at(last_workbook).sheets)
        => \A number \in 2..Len(test_data_rows(last_workbook)) :
               (/\ is_testcase_row(test_data_rows(last_workbook)[number])
                /\ IsTestCase(parse_testcase(workbook_at(last_workbook),
                                             test_data_rows(last_workbook)[number], number)))
                   => /\ ~IsNone(testcases)
                      /\ \E k \in 1..Len(testcases.v) :
                             testcases.v[k] = parse_testcase(workbook_at(last_workbook),
                                                             test_data_rows(last_workbook)[number],
                                                             number)

=============================================================================
